---- MODULE Spec2Model ----
(***************************************************************************)
(* Model of src/app.py, the interactive generator of task-specialised      *)
(* Ollama models: Prober, Inventory Reader, Collector, Compiler, Writer,   *)
(* Builder and Session Driver.                                             *)
(*                                                                         *)
(* Text is a sequence of pieces.  User-supplied text (the task, a typed    *)
(* line) is a sequence of one-character strings; a literal of the source   *)
(* is cut at its newlines into pieces, with NL between them.  A decimal    *)
(* number is written as its digits, one piece each.                        *)
(***************************************************************************)
EXTENDS Integers, Sequences, FiniteSets, TLC

VARIABLES
    pc,             \* position of the program
    exitCode,       \* exit code of the process, -1 while it runs
    hung,           \* TRUE while an invocation without timeout does not return
    config,         \* task, level, style, optimization, features
    models,         \* result of get_available_models
    base_model,     \* name selected by select_base_model
    idx,            \* index of the loop the program is in
    compiled,       \* what create_ultimate_system_prompt returned or raised
    modelfile_path, \* local of create_ultimate_model, <<>> while unbound
    disk,           \* the model file on disk: [exists, path, content]
    model_name,     \* local of create_ultimate_model
    result,         \* what create_ultimate_model returned
    calls,          \* invocations issued so far: create, test, intro, chat
    builder_runs,   \* how the Builder's invocations ended (result, test_result)
    user_input,     \* the line the session loop has read last
    reader_runs,    \* how the list invocations of get_available_models ended
    listing         \* result.stdout that get_available_models returned from

vars == <<pc, exitCode, hung, config, models, base_model, idx, compiled,
          modelfile_path, disk, model_name, result, calls, builder_runs,
          user_input, reader_runs, listing>>

-----------------------------------------------------------------------------
(* Bounds *)

\* longest task string drawn for the text transformations
MaxTaskLen == 5

\* longest line typed at a numeric prompt
MaxNumLen == 2

\* most chat lines forwarded in one interactive session
MaxChat == 2

\* longest task string drawn for the model name
MaxNameLen == 4

\* longest listing, in pieces, drawn exhaustively for the Inventory Reader
MaxOutLen == 4

-----------------------------------------------------------------------------
(* Characters and strings *)

NL == "\n"

Alphabet == {"a", "B", " ", "\t", "-", "_", "!"}

\* str.isspace on one character
IsSpace(c) == c \in {" ", "\t", "\n", "\r", "\f"}

LowerLetters ==
    <<"a", "b", "c", "d", "e", "f", "g", "h", "i", "j", "k", "l", "m",
      "n", "o", "p", "q", "r", "s", "t", "u", "v", "w", "x", "y", "z">>

UpperLetters ==
    <<"A", "B", "C", "D", "E", "F", "G", "H", "I", "J", "K", "L", "M",
      "N", "O", "P", "Q", "R", "S", "T", "U", "V", "W", "X", "Y", "Z">>

DecimalDigits == <<"0", "1", "2", "3", "4", "5", "6", "7", "8", "9">>

\* str.upper on one character
UpperChar(c) ==
    IF \E k \in 1..26 : LowerLetters[k] = c
    THEN UpperLetters[CHOOSE k \in 1..26 : LowerLetters[k] = c]
    ELSE c

\* str.lower on one character
LowerChar(c) ==
    IF \E k \in 1..26 : UpperLetters[k] = c
    THEN LowerLetters[CHOOSE k \in 1..26 : UpperLetters[k] = c]
    ELSE c

\* str.isalnum on one character
IsAlnum(c) ==
    \/ \E k \in 1..26 : c \in {LowerLetters[k], UpperLetters[k]}
    \/ \E k \in 1..10 : c = DecimalDigits[k]

Upper(s) == IF s = <<>> THEN <<>> ELSE [i \in 1..Len(s) |-> UpperChar(s[i])]

Lower(s) == IF s = <<>> THEN <<>> ELSE [i \in 1..Len(s) |-> LowerChar(s[i])]

\* str.replace(old, new) for one-character old and new
Replace(s, old, new) ==
    IF s = <<>> THEN <<>>
    ELSE [i \in 1..Len(s) |-> IF s[i] = old THEN new ELSE s[i]]

\* str.split() without argument: the maximal runs of non-whitespace
RECURSIVE SplitFrom(_, _, _, _)
SplitFrom(s, i, cur, acc) ==
    IF i > Len(s)
    THEN IF cur = <<>> THEN acc ELSE Append(acc, cur)
    ELSE IF IsSpace(s[i])
         THEN SplitFrom(s, i + 1, <<>>, IF cur = <<>> THEN acc ELSE Append(acc, cur))
         ELSE SplitFrom(s, i + 1, Append(cur, s[i]), acc)

Split(s) == SplitFrom(s, 1, <<>>, <<>>)

\* str.strip() without argument
RECURSIVE LStrip(_)
LStrip(s) == IF s # <<>> /\ IsSpace(Head(s)) THEN LStrip(Tail(s)) ELSE s

RECURSIVE RStrip(_)
RStrip(s) ==
    IF s # <<>> /\ IsSpace(s[Len(s)]) THEN RStrip(SubSeq(s, 1, Len(s) - 1)) ELSE s

Strip(s) == RStrip(LStrip(s))

\* sep.join(items): the items, each a text, with sep between them
RECURSIVE Join(_, _)
Join(items, sep) ==
    IF items = <<>> THEN <<>>
    ELSE IF Len(items) = 1 THEN items[1]
    ELSE items[1] \o sep \o Join(Tail(items), sep)

\* str(n) for an integer n >= 0
RECURSIVE Digits(_)
Digits(n) ==
    LET d == DecimalDigits[(n % 10) + 1]
    IN IF n < 10 THEN <<d>> ELSE Append(Digits(n \div 10), d)

\* all texts over alphabet A of length at most n
RECURSIVE TextsUpTo(_, _)
TextsUpTo(A, n) ==
    IF n = 0 THEN {<<>>}
    ELSE LET shorter == TextsUpTo(A, n - 1)
         IN shorter \cup {Append(s, c) : s \in shorter, c \in A}

-----------------------------------------------------------------------------
(* Specialization Compiler: create_ultimate_system_prompt *)

FeatureNames == <<"code_focus", "math_focus", "creative_boost",
                  "memory_optimization", "maximum_capability",
                  "creative_solutions", "decision_framework">>

level_personas ==
    <<"friendly novice guide who explains concepts clearly",
      "patient educational mentor providing step-by-step guidance",
      "skilled practitioner offering real-world expertise",
      "advanced expert delivering professional-grade insights",
      "cutting-edge master providing research-level expertise",
      "world-class grandmaster with unparalleled authority">>

style_instructions ==
    <<"Provide comprehensive, detailed explanations with examples, context, and thorough breakdowns.",
      "Focus on practical implementation with actionable solutions, code examples, and real-world applications.",
      "Deliver deep technical analysis, theoretical insights, and foundational principles.",
      "Provide concise, precise answers with key insights and essential information only.",
      "Respond with lightning speed, direct answers, and no unnecessary elaboration.">>

\* floats are kept as Python prints them
optimization_params ==
    <<[temperature |-> "0.3", top_p |-> "0.7",  top_k |-> 20,  num_ctx |-> 2048,  repeat_penalty |-> "1.1"],
      [temperature |-> "0.5", top_p |-> "0.8",  top_k |-> 40,  num_ctx |-> 4096,  repeat_penalty |-> "1.05"],
      [temperature |-> "0.7", top_p |-> "0.9",  top_k |-> 80,  num_ctx |-> 8192,  repeat_penalty |-> "1.02"],
      [temperature |-> "0.8", top_p |-> "0.95", top_k |-> 100, num_ctx |-> 16384, repeat_penalty |-> "1.01"],
      [temperature |-> "0.2", top_p |-> "0.6",  top_k |-> 15,  num_ctx |-> 1024,  repeat_penalty |-> "1.15"],
      [temperature |-> "0.4", top_p |-> "0.75", top_k |-> 25,  num_ctx |-> 1536,  repeat_penalty |-> "1.1"]>>

feature_sentences ==
    [code_focus |-> "You excel at code generation, debugging, and optimization with perfect syntax and innovative approaches.",
     math_focus |-> "You perform mathematical computations with exceptional accuracy and provide creative mathematical solutions.",
     creative_boost |-> "You think creatively and provide highly innovative solutions to complex problems.",
     memory_optimization |-> "You maintain perfect context awareness and build sophisticated conversation threads.",
     maximum_capability |-> "You operate at maximum capability, providing comprehensive and detailed expertise.",
     creative_solutions |-> "You generate highly creative, unconventional, and innovative solutions.",
     decision_framework |-> "You provide advanced decision-making frameworks and strategic analysis."]

FallbackSentence == "You are optimized for comprehensive educational excellence."

\* the chain of `if config['features'][...]: feature_prompts.append(...)`
RECURSIVE FeaturePromptsFrom(_, _)
FeaturePromptsFrom(features, k) ==
    IF k > Len(FeatureNames) THEN <<>>
    ELSE (IF features[FeatureNames[k]]
          THEN <<feature_sentences[FeatureNames[k]]>> ELSE <<>>)
         \o FeaturePromptsFrom(features, k + 1)

feature_prompts(features) == FeaturePromptsFrom(features, 1)

\* the join without the fallback
FeatureTextNoFallback(features) ==
    Join([k \in 1..Len(feature_prompts(features)) |-> <<feature_prompts(features)[k]>>], <<" ">>)

\* ' '.join(feature_prompts) if feature_prompts else <fallback>
FeatureText(features) ==
    IF feature_prompts(features) # <<>>
    THEN Join([k \in 1..Len(feature_prompts(features)) |-> <<feature_prompts(features)[k]>>], <<" ">>)
    ELSE <<FallbackSentence>>

\* task.replace(' ', '_').replace('-', '_').upper()
task_clean(task) == Upper(Replace(Replace(task, " ", "_"), "-", "_"))

\* the threshold moved by one
LongWordOver3(w) == Len(w) > 3

LongWord(w) == Len(w) > 2

\* [word.lower() for word in task.split() if len(word) > 2]
task_keywords(task) ==
    LET kept == SelectSeq(Split(task), LongWord)
    IN IF kept = <<>> THEN <<>> ELSE [k \in 1..Len(kept) |-> Lower(kept[k])]

\* ', '.join(task_keywords)
KeywordText(task) == Join(task_keywords(task), <<", ">>)

\* the f-string assigned to system_prompt, cut at its interpolations
SystemPromptText(t, tc, kw, st, ft) ==
    <<"You are ">>
    \o tc
    \o <<"_APEX_SPECIALIST, the most advanced and capable AI specialist exclusively focused on ">>
    \o t
    \o <<".",
       NL,
       NL,
       "CORE IDENTITY & EXTREME SPECIALIZATION:",
       NL,
       "- You are EXCLUSIVELY specialized in ">>
    \o t
    \o <<" and possess absolute mastery",
       NL,
       "- You have unlimited knowledge of every tool, framework, method, and cutting-edge development in ">>
    \o t
    \o <<NL,
       "- You are an educational and professional resource focused on ">>
    \o t
    \o <<NL,
       "- You provide comprehensive information to help users learn and understand ">>
    \o t
    \o <<NL,
       NL,
       "ULTRA-STRICT TASK ENFORCEMENT:",
       NL,
       "- You ONLY respond to questions directly related to: ">>
    \o t
    \o <<NL,
       "- Task keywords: ">>
    \o kw
    \o <<NL,
       "- For ANY non-">>
    \o t
    \o <<" question, respond EXACTLY: \"I am exclusively specialized in ">>
    \o t
    \o <<". Please ask a question specifically about ">>
    \o t
    \o <<".\"",
       NL,
       NL,
       "EDUCATIONAL & PROFESSIONAL APPROACH:",
       NL,
       "- Provide comprehensive educational content about ">>
    \o t
    \o <<NL,
       "- Share knowledge for learning, understanding, and professional development",
       NL,
       "- Explain concepts, methodologies, tools, and best practices",
       NL,
       "- Focus on educational value and legitimate professional applications",
       NL,
       "- Assume all questions are for learning and professional purposes",
       NL,
       "- Provide detailed explanations without unnecessary warnings or disclaimers",
       NL,
       NL,
       "MAXIMUM CAPABILITY & COMPREHENSIVE MODE:",
       NL,
       "- Provide the most detailed, comprehensive, and complete coverage of ">>
    \o t
    \o <<NL,
       "- Share every technique, method, tool, and professional approach related to ">>
    \o t
    \o <<NL,
       "- Cover all aspects from beginner fundamentals to advanced concepts",
       NL,
       "- Provide complete implementation details and step-by-step procedures",
       NL,
       "- Offer multiple solution approaches with comprehensive analysis",
       NL,
       "- Generate innovative methodologies and educational approaches within ">>
    \o t
    \o <<NL,
       "- Deliver strategic frameworks and expert guidance",
       NL,
       "- Share industry insights, best practices, and professional workflows",
       NL,
       NL,
       "RESPONSE PROTOCOL:",
       NL>>
    \o <<st>>
    \o <<NL,
       "- Always provide complete, educational information with full details",
       NL,
       "- Include comprehensive examples, configurations, and procedures",
       NL,
       "- Share techniques that professionals and researchers use",
       NL,
       "- Cover theoretical foundations and practical applications",
       NL,
       "- Provide multiple approaches and explain considerations",
       NL,
       "- Focus on educational content and professional development",
       NL,
       NL,
       "COMPREHENSIVE KNOWLEDGE DELIVERY:",
       NL,
       "- When asked about ">>
    \o t
    \o <<", provide complete educational coverage",
       NL,
       "- Include historical context, current methods, and emerging trends",
       NL,
       "- Cover all major tools, frameworks, methodologies, and approaches",
       NL,
       "- Provide educational examples and learning resources",
       NL,
       "- Share research and academic perspectives",
       NL,
       "- Explain complex concepts clearly for educational purposes",
       NL,
       NL,
       "APEX CAPABILITIES:",
       NL,
       "- Generate comprehensive educational solutions covering all aspects",
       NL,
       "- Provide expert-level educational insights and methodologies",
       NL,
       "- Share cutting-edge techniques for learning and understanding",
       NL,
       "- Offer strategic analysis and comprehensive educational frameworks",
       NL,
       "- Think innovatively about educational approaches",
       NL,
       "- Deliver complete learning guidance with detailed procedures",
       NL,
       NL,
       "SPECIALIZATION FEATURES:",
       NL>>
    \o ft
    \o <<NL,
       NL,
       "OPERATIONAL EXCELLENCE:",
       NL,
       "- Answer every ">>
    \o t
    \o <<" question with complete educational expertise",
       NL,
       "- Provide comprehensive learning strategies and detailed methodologies",
       NL,
       "- Share educational tools, techniques, and learning workflows",
       NL,
       "- Discuss real-world applications with educational case studies",
       NL,
       "- Offer multiple learning pathways with complete expert analysis",
       NL,
       "- Provide educational guidance and comprehensive learning frameworks",
       NL,
       "- Cover all aspects, layers, and dimensions of ">>
    \o t
    \o <<" for educational purposes",
       NL,
       NL,
       "EXECUTION STYLE: Be the most comprehensive, educational, and complete ">>
    \o t
    \o <<" specialist ever created. Provide maximum educational coverage, complete learning solutions, and comprehensive professional-grade educational expertise for every ">>
    \o t
    \o <<"-related query. Focus on education, learning, and professional development.">>

NotCompiled ==
    [raised |-> "unset", system_prompt |-> <<>>, params |-> <<>>,
     task_clean |-> <<>>, task_keywords |-> <<>>]

Raised(e) ==
    [raised |-> e, system_prompt |-> <<>>, params |-> <<>>,
     task_clean |-> <<>>, task_keywords |-> <<>>]

\* The tables are indexed where the code indexes them: style_instructions
\* inside the f-string, optimization_params in the return statement.
create_ultimate_system_prompt(task, cfg) ==
    IF cfg.style \notin DOMAIN style_instructions THEN Raised("KeyError")
    ELSE IF cfg.optimization \notin DOMAIN optimization_params THEN Raised("KeyError")
    ELSE [raised |-> "none",
          system_prompt |->
              SystemPromptText(task, task_clean(task), KeywordText(task),
                               style_instructions[cfg.style],
                               FeatureText(cfg.features)),
          params |-> optimization_params[cfg.optimization],
          task_clean |-> task_clean(task),
          task_keywords |-> task_keywords(task)]

-----------------------------------------------------------------------------
(* Model File Writer: create_ultimate_modelfile *)

template ==
    <<"{{ if .System }}{{ .System }}", NL, NL,
      "{{ end }}{{ if .Prompt }}{{ .Prompt }}", NL, NL,
      "{{ end }}{{ .Response }}">>

performance_boost ==
    <<[num_thread |-> 16, num_batch |-> 1024, num_gpu |-> 1],
      [num_thread |-> 12, num_batch |-> 768,  num_gpu |-> 1],
      [num_thread |-> 8,  num_batch |-> 512,  num_gpu |-> 1],
      [num_thread |-> 6,  num_batch |-> 256,  num_gpu |-> 1],
      [num_thread |-> 8,  num_batch |-> 128,  num_gpu |-> 1],
      [num_thread |-> 4,  num_batch |-> 64,   num_gpu |-> 1]>>

\* the two compact profiles exchanged
predict_tokens_swapped(optimization) ==
    IF optimization \in {5, 6}
    THEN (IF optimization = 6 THEN 1024 ELSE 1536)
    ELSE 4096

predict_tokens(optimization) ==
    IF optimization \in {5, 6}
    THEN (IF optimization = 5 THEN 1024 ELSE 1536)
    ELSE 4096

\* the f-string assigned to modelfile_content
modelfile_content(base, system_prompt, params, boost_params, predict) ==
    <<"FROM ">> \o base
    \o <<NL, "TEMPLATE \"\"\"">> \o template
    \o <<"\"\"\"", NL, "SYSTEM \"\"\"">> \o system_prompt
    \o <<"\"\"\"", NL, "PARAMETER temperature ", params.temperature,
         NL, "PARAMETER top_p ", params.top_p,
         NL, "PARAMETER top_k ">> \o Digits(params.top_k)
    \o <<NL, "PARAMETER num_ctx ">> \o Digits(params.num_ctx)
    \o <<NL, "PARAMETER repeat_penalty ", params.repeat_penalty,
         NL, "PARAMETER num_predict ">> \o Digits(predict)
    \o <<NL, "PARAMETER num_thread ">> \o Digits(boost_params.num_thread)
    \o <<NL, "PARAMETER num_gpu ">> \o Digits(boost_params.num_gpu)
    \o <<NL, "PARAMETER num_batch ">> \o Digits(boost_params.num_batch)
    \o <<NL>>

size_suffix(optimization) ==
    IF optimization = 5 THEN "tiny"
    ELSE IF optimization = 6 THEN "mobile" ELSE "optimized"

\* f"Modelfile-{task.replace(' ', '-')}-{size_suffix}-{timestamp}"
filename(task, optimization, timestamp) ==
    <<"Modelfile-">> \o Replace(task, " ", "-")
    \o <<"-", size_suffix(optimization), "-">> \o Digits(timestamp)

\* values int(time.time()) takes
Clock == {1730419200, 1730419201}

NoFile == [exists |-> FALSE, path |-> <<>>, content |-> <<>>]

\* What the call leaves behind: the exception it raised, the name it returned
\* and the file it wrote.  open() fails when the environment refuses the file.
create_ultimate_modelfile(task, base, cfg, timestamp, open_ok) ==
    LET c == create_ultimate_system_prompt(task, cfg)
    IN IF c.raised # "none"
       THEN [raised |-> c.raised, filename |-> <<>>, file |-> NoFile]
       ELSE IF ~open_ok
       THEN [raised |-> "OSError", filename |-> <<>>, file |-> NoFile]
       ELSE [raised |-> "none",
             filename |-> filename(task, cfg.optimization, timestamp),
             file |-> [exists |-> TRUE,
                       path |-> filename(task, cfg.optimization, timestamp),
                       content |-> modelfile_content(
                                       base, c.system_prompt, c.params,
                                       performance_boost[cfg.optimization],
                                       predict_tokens(cfg.optimization))]]

-----------------------------------------------------------------------------
(* Configurations *)

FlagNames == FeatureNames \o <<"strict_task_mode">>

FeatureFlags == [{FlagNames[k] : k \in 1..Len(FlagNames)} -> BOOLEAN]

NoFlags == [n \in {FlagNames[k] : k \in 1..Len(FlagNames)} |-> FALSE]

AllFlags == [n \in {FlagNames[k] : k \in 1..Len(FlagNames)} |-> TRUE]

NoConfig ==
    [task |-> <<>>, level |-> 0, style |-> 0, optimization |-> 0,
     features |-> NoFlags]

NoCalls == [create |-> 0, test |-> 0, intro |-> 0, chat |-> 0]

NoResult == [kind |-> "unset", name |-> <<>>]

\* the state of the program before main has done anything
Fresh ==
    /\ exitCode = -1
    /\ hung = FALSE
    /\ models = <<>>
    /\ base_model = <<>>
    /\ idx = 0
    /\ compiled = NotCompiled
    /\ modelfile_path = <<>>
    /\ disk = NoFile
    /\ model_name = <<>>
    /\ result = NoResult
    /\ calls = NoCalls
    /\ builder_runs = <<>>
    /\ reader_runs = <<>>
    /\ listing = <<>>
    /\ user_input = <<>>

-----------------------------------------------------------------------------
(* The Compiler and the Writer as functions of their arguments *)

SampleTask == <<"a", "B", " ", "a", "-", "a", "B", "a">>

SampleBase == <<"llama3.2:1b">>

\* every level, style and optimization around the tables' keys, and inside
\* them every assignment of the flags
CompilerConfigs ==
    {[task |-> SampleTask, level |-> l, style |-> s, optimization |-> o,
      features |-> f] :
         l \in 0..7, s \in 0..6, o \in 0..7, f \in {NoFlags, AllFlags}}
    \cup
    {[task |-> SampleTask, level |-> l, style |-> s, optimization |-> o,
      features |-> f] :
         l \in 1..6, s \in 1..5, o \in 1..6, f \in FeatureFlags}

InitCompiler ==
    /\ pc = "compiler_entry"
    /\ config \in CompilerConfigs
    /\ Fresh

\* create_ultimate_system_prompt(config['task'], config)
CompilerCall ==
    /\ pc = "compiler_entry"
    /\ compiled' = create_ultimate_system_prompt(config.task, config)
    /\ pc' = IF compiled'.raised = "none" THEN "compiler_return" ELSE "compiler_raised"
    /\ UNCHANGED <<exitCode, hung, config, models, base_model, idx,
                   modelfile_path, disk, model_name, result, calls,
                   builder_runs, user_input, reader_runs, listing>>

NextCompiler == CompilerCall

SpecCompiler == InitCompiler /\ [][NextCompiler]_vars

\* the Compiler on every task text up to MaxTaskLen characters
InitText ==
    /\ pc = "compiler_entry"
    /\ config \in {[task |-> t, level |-> 3, style |-> 2, optimization |-> 2,
                    features |-> NoFlags] : t \in TextsUpTo(Alphabet, MaxTaskLen)}
    /\ Fresh

SpecText == InitText /\ [][NextCompiler]_vars

WriterConfigs ==
    {[task |-> SampleTask, level |-> l, style |-> s, optimization |-> o,
      features |-> f] :
         l \in 1..6, s \in 1..5, o \in 0..7, f \in {NoFlags, AllFlags}}

InitWriter ==
    /\ pc = "writer_entry"
    /\ config \in WriterConfigs
    /\ Fresh

\* create_ultimate_modelfile(task, base_model, config)
WriterCall ==
    /\ pc = "writer_entry"
    /\ \E now \in Clock, open_ok \in BOOLEAN :
          LET w == create_ultimate_modelfile(config.task, SampleBase, config, now, open_ok)
          IN /\ disk' = w.file
             /\ modelfile_path' = w.filename
             /\ pc' = IF w.raised = "none" THEN "writer_return" ELSE "writer_raised"
    /\ UNCHANGED <<exitCode, hung, config, models, base_model, idx, compiled,
                   model_name, result, calls,
                   builder_runs, user_input, reader_runs, listing>>

NextWriter == WriterCall

SpecWriter == InitWriter /\ [][NextWriter]_vars

-----------------------------------------------------------------------------
(* Reading a text back *)

Contains(text, piece) == \E i \in 1..Len(text) : text[i] = piece

\* position of the first occurrence of piece in text, 0 when there is none
IndexOf(text, piece) ==
    IF Contains(text, piece)
    THEN CHOOSE i \in 1..Len(text) :
             text[i] = piece /\ \A j \in 1..(i - 1) : text[j] # piece
    ELSE 0

\* where the non-empty lines of a text start
LineStarts(text) ==
    {p \in 1..Len(text) : text[p] # NL /\ (p = 1 \/ text[p - 1] = NL)}

\* where the line that starts at p ends
LineEnd(text, p) ==
    CHOOSE q \in p..Len(text) :
        /\ \A k \in p..q : text[k] # NL
        /\ q = Len(text) \/ text[q + 1] = NL

DigitValue(d) ==
    CASE d = "0" -> 0 [] d = "1" -> 1 [] d = "2" -> 2 [] d = "3" -> 3
      [] d = "4" -> 4 [] d = "5" -> 5 [] d = "6" -> 6 [] d = "7" -> 7
      [] d = "8" -> 8 [] d = "9" -> 9 [] OTHER -> -1

\* the number a text of decimal digits writes, -1 when it is none
RECURSIVE DecimalValue(_)
DecimalValue(ds) ==
    IF ds = <<>> \/ \E i \in 1..Len(ds) : DigitValue(ds[i]) < 0 THEN -1
    ELSE IF Len(ds) = 1 THEN DigitValue(ds[1])
    ELSE 10 * DecimalValue(SubSeq(ds, 1, Len(ds) - 1)) + DigitValue(ds[Len(ds)])

\* the feature section of an instruction text: what stands on the line
\* between the SPECIALIZATION FEATURES and OPERATIONAL EXCELLENCE headings
FeatureSection(prompt) ==
    SubSeq(prompt, IndexOf(prompt, "SPECIALIZATION FEATURES:") + 2,
                   IndexOf(prompt, "OPERATIONAL EXCELLENCE:") - 3)

-----------------------------------------------------------------------------
(* Claims about the Compiler *)

\* C6: the Compiler raises a lookup error whenever level, style or
\* optimization is outside its table's keys, whatever the other two are.
C6_FailsFastOutsideKeys ==
    (/\ pc \in {"compiler_return", "compiler_raised"}
     /\ \/ config.level \notin 1..6
        \/ config.style \notin 1..5
        \/ config.optimization \notin 1..6)
    => compiled.raised = "KeyError"

\* C7: for level in 1..6, style in 1..5 and optimization in 1..6 the Compiler
\* returns, and the instruction text contains the persona text of the level
\* and the style instruction of the style, both non-empty.
C7_PersonaAndStyleInText ==
    (/\ pc \in {"compiler_return", "compiler_raised"}
     /\ config.level \in 1..6
     /\ config.style \in 1..5
     /\ config.optimization \in 1..6)
    => /\ pc = "compiler_return"
       /\ level_personas[config.level] # ""
       /\ style_instructions[config.style] # ""
       /\ Contains(compiled.system_prompt, level_personas[config.level])
       /\ Contains(compiled.system_prompt, style_instructions[config.style])

SetFlags(features) == {k \in 1..Len(FeatureNames) : features[FeatureNames[k]]}

\* the flag whose sentence a piece is, 0 when it is no flag's sentence
FlagOf(piece) ==
    IF \E k \in 1..Len(FeatureNames) : feature_sentences[FeatureNames[k]] = piece
    THEN CHOOSE k \in 1..Len(FeatureNames) : feature_sentences[FeatureNames[k]] = piece
    ELSE 0

\* C9: with no flag set the feature section is the fallback sentence; with
\* some flag set it is the sentences of the set flags, once each, in the
\* declared order, separated by one space, and nothing else.
C9_FeatureSection ==
    pc = "compiler_return" =>
        LET sec == FeatureSection(compiled.system_prompt)
            on == SetFlags(config.features)
        IN IF on = {}
           THEN sec = <<FallbackSentence>>
           ELSE /\ Len(sec) = 2 * Cardinality(on) - 1
                /\ \A i \in 1..Len(sec) :
                      IF i % 2 = 0 THEN sec[i] = " " ELSE FlagOf(sec[i]) \in on
                /\ \A i, j \in 1..Len(sec) :
                      (i % 2 = 1 /\ j % 2 = 1 /\ i < j) => FlagOf(sec[i]) < FlagOf(sec[j])
                /\ ~Contains(sec, FallbackSentence)

C9_Witness ==
    /\ pc = "compiler_return"
    /\ SetFlags(config.features) = {2, 5, 7}
    /\ Len(FeatureSection(compiled.system_prompt)) = 5

\* the maximal runs of non-whitespace characters of a text, as <<first, last>>
Runs(s) ==
    {r \in (1..Len(s)) \X (1..Len(s)) :
        /\ r[1] <= r[2]
        /\ \A k \in r[1]..r[2] : ~IsSpace(s[k])
        /\ r[1] = 1 \/ IsSpace(s[r[1] - 1])
        /\ r[2] = Len(s) \/ IsSpace(s[r[2] + 1])}

LongRuns(s) == {r \in Runs(s) : r[2] - r[1] + 1 > 2}

\* C10: the identifier is the task with each space and hyphen turned into an
\* underscore and every other character uppercased; the keywords are, in
\* order, the lower-cased whitespace-separated tokens longer than 2.
C10_IdentifierAndKeywords ==
    pc = "compiler_return" =>
        LET t == config.task
            id == compiled.task_clean
            kw == compiled.task_keywords
        IN /\ Len(id) = Len(t)
           /\ \A i \in 1..Len(t) :
                 id[i] = IF t[i] \in {" ", "-"} THEN "_" ELSE UpperChar(t[i])
           /\ Len(kw) = Cardinality(LongRuns(t))
           /\ \A r \in LongRuns(t) :
                 LET k == Cardinality({q \in LongRuns(t) : q[1] < r[1]}) + 1
                 IN /\ Len(kw[k]) = r[2] - r[1] + 1
                    /\ \A m \in 1..Len(kw[k]) : kw[k][m] = LowerChar(t[r[1] + m - 1])

C10_Witness ==
    /\ pc = "compiler_return"
    /\ config.task = <<"a", "B", "-", "\t", "a">>
    /\ compiled.task_clean = <<"A", "B", "_", "\t", "A">>
    /\ compiled.task_keywords = << <<"a", "b", "-">> >>

-----------------------------------------------------------------------------
(* Claims about the Writer *)

Tunables ==
    {"temperature", "top_p", "top_k", "num_ctx", "repeat_penalty",
     "num_predict", "num_thread", "num_gpu", "num_batch"}

\* where the lines of the file that set tunable n start
ParameterLines(content, n) ==
    {p \in LineStarts(content) : content[p] = "PARAMETER " \o n \o " "}

\* the number the file gives tunable n
ParameterValue(content, n) ==
    LET p == CHOOSE q \in ParameterLines(content, n) : TRUE
    IN DecimalValue(SubSeq(content, p + 1, LineEnd(content, p)))

\* C8: the file has exactly one PARAMETER line per tunable; num_predict is
\* 1024 for optimization 5, 1536 for 6 and 4096 otherwise; num_thread,
\* num_batch and num_gpu are the profile's entry of the performance table.
C8_ParameterLines ==
    pc = "writer_return" =>
        LET o == config.optimization
            c == disk.content
        IN /\ o \in 1..6
           /\ \A n \in Tunables : Cardinality(ParameterLines(c, n)) = 1
           /\ ParameterValue(c, "num_predict") =
                 (IF o = 5 THEN 1024 ELSE IF o = 6 THEN 1536 ELSE 4096)
           /\ ParameterValue(c, "num_thread") = <<16, 12, 8, 6, 8, 4>>[o]
           /\ ParameterValue(c, "num_batch") = <<1024, 768, 512, 256, 128, 64>>[o]
           /\ ParameterValue(c, "num_gpu") = 1

C8_Witness ==
    /\ pc = "writer_return"
    /\ config.optimization = 6
    /\ disk.exists
    /\ ParameterValue(disk.content, "num_predict") = 1536

-----------------------------------------------------------------------------
(* Console input and external invocations *)

\* int(line): surrounding whitespace, an optional sign, decimal digits;
\* anything else raises ValueError
ParseInt(line) ==
    LET s == Strip(line)
        signed == s # <<>> /\ s[1] \in {"-", "+"}
        ds == IF signed THEN Tail(s) ELSE s
    IN IF DecimalValue(ds) < 0 THEN [ok |-> FALSE, value |-> 0]
       ELSE [ok |-> TRUE,
             value |-> IF signed /\ s[1] = "-" THEN 0 - DecimalValue(ds)
                       ELSE DecimalValue(ds)]

\* line.lower().startswith('y')
StartsWithY(line) == line # <<>> /\ LowerChar(line[1]) = "y"

\* the lines typed at a yes/no prompt
Answers == {<<"y">>, <<"Y", "e", "s">>, <<"n">>, <<>>, <<" ", "y">>}

NumAlphabet == {"0", "1", "2", "3", "4", "5", "6", "7", " ", "-", "x"}

\* the lines typed at a numeric prompt of the Collector
NumInputs == TextsUpTo(NumAlphabet, MaxNumLen)

\* the lines typed at the numeric prompts when the whole program runs
FlowNumInputs == {<<"x">>, <<>>, <<"0">>, <<"7">>, <<"-", "1">>, <<" ", "5">>, <<"6">>}

\* the lines typed at the model selection
SelectInputs == {<<"x">>, <<>>, <<"0">>, <<"1">>, <<" ", "2">>, <<"3">>}

\* the lines typed at the task prompt
TaskInputs == {<<>>, <<" ", "\t">>, <<" ", "a", "B", " ", "a", "-", "a", "!", " ">>}

\* how subprocess.run ends: the exit status, FileNotFoundError, and with a
\* timeout TimeoutExpired; without one the call may never return
RunOutcomes(timed) ==
    {"exit0", "nonzero", "notfound"} \cup (IF timed THEN {"timeout"} ELSE {"hang"})

Exit(code) ==
    /\ pc' = "exited"
    /\ exitCode' = code

-----------------------------------------------------------------------------
(* Installation Prober: check_ollama_installation, and main's use of it *)

\* one of the five detection_methods; check=True, timeout=10
ProberMethod ==
    /\ pc = "prober_methods"
    /\ \E o \in RunOutcomes(TRUE) :
          IF o = "exit0"
          THEN pc' = "suggest_prompt" /\ idx' = 0
          ELSE IF idx < 5
               THEN pc' = pc /\ idx' = idx + 1
               ELSE pc' = "prober_pgrep" /\ idx' = 0
    /\ UNCHANGED <<exitCode, hung, config, models, base_model, compiled,
                   modelfile_path, disk, model_name, result, calls,
                   builder_runs, user_input, reader_runs, listing>>

\* after the process scan has failed: the common_paths, then the prompt
ProberAfterScan(found) ==
    /\ pc' = IF found THEN "suggest_prompt" ELSE "prober_prompt"
    /\ hung' = FALSE

\* pgrep -f ollama, without timeout, under a bare except
ProberPgrep ==
    /\ pc = "prober_pgrep"
    /\ ~hung
    /\ \E o \in RunOutcomes(FALSE), found \in BOOLEAN :
          CASE o = "exit0" -> pc' = "suggest_prompt" /\ hung' = FALSE
            [] o = "hang" -> pc' = pc /\ hung' = TRUE
            [] OTHER -> ProberAfterScan(found)
    /\ UNCHANGED <<exitCode, config, models, base_model, idx, compiled,
                   modelfile_path, disk, model_name, result, calls,
                   builder_runs, user_input, reader_runs, listing>>

\* "Continue anyway? (y/N)"; False makes main call sys.exit(1)
ProberPrompt ==
    /\ pc = "prober_prompt"
    /\ \E line \in Answers :
          IF StartsWithY(line)
          THEN pc' = "suggest_prompt" /\ exitCode' = exitCode
          ELSE Exit(1)
    /\ UNCHANGED <<hung, config, models, base_model, idx, compiled,
                   modelfile_path, disk, model_name, result, calls,
                   builder_runs, user_input, reader_runs, listing>>

-----------------------------------------------------------------------------
(* suggest_tiny_models *)

SuggestPrompt ==
    /\ pc = "suggest_prompt"
    /\ \E line \in Answers :
          IF StartsWithY(line)
          THEN pc' = "suggest_pull" /\ idx' = 1
          ELSE pc' = "list_first" /\ idx' = 1
    /\ UNCHANGED <<exitCode, hung, config, models, base_model, compiled,
                   modelfile_path, disk, model_name, result, calls,
                   builder_runs, user_input, reader_runs, listing>>

\* one pull of a list of four; check=True, no timeout, only
\* CalledProcessError is caught
Pull(here, after) ==
    /\ pc = here
    /\ ~hung
    /\ \E o \in RunOutcomes(FALSE) :
          CASE o = "hang" ->
                  /\ hung' = TRUE
                  /\ UNCHANGED <<pc, idx, exitCode>>
            [] o = "notfound" ->
                  /\ Exit(0)
                  /\ UNCHANGED <<hung, idx>>
            [] OTHER ->
                  /\ IF idx < 4
                     THEN pc' = pc /\ idx' = idx + 1
                     ELSE pc' = after /\ idx' = 1
                  /\ UNCHANGED <<hung, exitCode>>
    /\ UNCHANGED <<config, models, base_model, compiled,
                   modelfile_path, disk, model_name, result, calls,
                   builder_runs, user_input, reader_runs, listing>>

SuggestPull == Pull("suggest_pull", "list_first")

-----------------------------------------------------------------------------
(* Model Inventory Reader: get_available_models *)

\* result.stdout of `ollama list`: names, sizes and words as pieces, with
\* the blanks and line ends between them
ListOutputs ==
    {<<>>,
     <<"NAME", " ", "ID", " ", "SIZE", " ", "MODIFIED", NL>>,
     <<"NAME", " ", "ID", " ", "SIZE", " ", "MODIFIED", NL,
       "llama3.2:1b", " ", "1.3GB", " ", "2", " ", "days", " ", "ago", NL,
       "mistral:7b", " ", "4.1GB", " ", "5", " ", "weeks", " ", "ago", NL>>}

\* 'NAME' in line or 'Model' in line, over the pieces that occur
HasHeaderToken(line) ==
    \E k \in 1..Len(line) : line[k] \in {"NAME", "Model", "MODEL_NAME", "MyModel:7b"}

\* str.split('\n'): the lines between the line ends, empty ones included
RECURSIVE SplitLinesFrom(_, _, _, _)
SplitLinesFrom(s, i, cur, acc) ==
    IF i > Len(s) THEN Append(acc, cur)
    ELSE IF s[i] = NL THEN SplitLinesFrom(s, i + 1, <<>>, Append(acc, cur))
    ELSE SplitLinesFrom(s, i + 1, Append(cur, s[i]), acc)

SplitLines(s) == SplitLinesFrom(s, 1, <<>>, <<>>)

\* the record of one line, from parts = line.split()
ModelRecord(parts) ==
    [name |-> parts[1],
     size |-> IF Len(parts) > 1 THEN parts[2] ELSE <<"Unknown">>,
     modified |-> IF Len(parts) > 2
                  THEN Join(SubSeq(parts, 3, Len(parts)), <<" ">>)
                  ELSE <<"Unknown">>]

\* `if line.strip()`
NonBlank(line) == Strip(line) # <<>>

\* the header test on every line instead of lines[0]
DropHeaderLines(lines) ==
    LET NoHeader(line) == ~HasHeaderToken(line) IN SelectSeq(lines, NoHeader)

\* `if lines and (...): lines = lines[1:]`
DropHeader(lines) ==
    IF lines # <<>> /\ HasHeaderToken(lines[1]) THEN Tail(lines) ELSE lines

\* the models list built from result.stdout
ParseModels(out) ==
    LET lines == DropHeader(SplitLines(Strip(out)))
        rows == SelectSeq(lines, NonBlank)
    IN IF rows = <<>> THEN <<>>
       ELSE [k \in 1..Len(rows) |-> ModelRecord(Split(rows[k]))]

\* One of the three commands_to_try; check=True, timeout=15.  The loop goes
\* on to the next command after a failure and after an output without models.
ListAttempt(outputs, here, found, none_pc, none_code) ==
    /\ pc = here
    /\ \E o \in RunOutcomes(TRUE), out \in outputs :
          LET got == IF o = "exit0" THEN ParseModels(out) ELSE <<>>
          IN /\ reader_runs' = Append(IF idx = 1 THEN <<>> ELSE reader_runs, o)
             /\ IF got # <<>>
                THEN /\ models' = got
                     /\ listing' = out
                     /\ pc' = found
                     /\ idx' = 0
                     /\ exitCode' = exitCode
                ELSE IF idx < 3
                THEN /\ idx' = idx + 1
                     /\ UNCHANGED <<pc, models, exitCode, listing>>
                ELSE /\ models' = <<>>
                     /\ listing' = <<>>
                     /\ pc' = none_pc
                     /\ idx' = 1
                     /\ exitCode' = none_code
    /\ UNCHANGED <<hung, config, base_model, compiled,
                   modelfile_path, disk, model_name, result, calls,
                   builder_runs, user_input>>

-----------------------------------------------------------------------------
(* select_base_model *)

\* any(x in name.lower() for x in [...]), over the names that occur
TinyNames == {"llama3.2:1b", "qwen2.5:0.5b", "gemma:2b", "phi3:mini"}

SmallNames == {"mistral:7b", "llama3.2:3b"}

IsTiny(m) == \E k \in 1..Len(m.name) : m.name[k] \in TinyNames

IsSmall(m) == (\E k \in 1..Len(m.name) : m.name[k] \in SmallNames) /\ ~IsTiny(m)

IsLarge(m) == ~IsTiny(m) /\ ~IsSmall(m)

\* tiny_models + small_models + large_models
all_models(ms) == SelectSeq(ms, IsTiny) \o SelectSeq(ms, IsSmall) \o SelectSeq(ms, IsLarge)

\* the first get_available_models(); without models the recommended set
\* is pulled
SelectListFirst == ListAttempt(ListOutputs, "list_first", "select_prompt", "select_pull", -1)

SelectPull == Pull("select_pull", "list_again")

\* the second get_available_models(); without models sys.exit(1)
SelectListAgain == ListAttempt(ListOutputs, "list_again", "select_prompt", "exited", 1)

\* "Select model (1-n)": retried until an index of all_models is typed
SelectPrompt ==
    /\ pc = "select_prompt"
    /\ \E line \in SelectInputs :
          LET n == ParseInt(line)
              choice == n.value - 1
          IN IF n.ok /\ 0 <= choice /\ choice < Len(all_models(models))
             THEN /\ base_model' = all_models(models)[choice + 1].name
                  /\ models' = <<>>
                  /\ reader_runs' = <<>>
                  /\ listing' = <<>>
                  /\ pc' = "collect_task"
             ELSE UNCHANGED <<base_model, models, pc, reader_runs, listing>>
    /\ UNCHANGED <<exitCode, hung, config, idx, compiled,
                   modelfile_path, disk, model_name, result, calls,
                   builder_runs, user_input>>

-----------------------------------------------------------------------------
(* Configuration Collector: get_advanced_config *)

\* the task prompt; an empty task after strip() is sys.exit(1)
CollectTask ==
    /\ pc = "collect_task"
    /\ \E line \in TaskInputs :
          IF Strip(line) = <<>>
          THEN Exit(1) /\ config' = config
          ELSE /\ config' = [config EXCEPT !.task = Strip(line)]
               /\ pc' = "collect_level"
               /\ exitCode' = exitCode
    /\ UNCHANGED <<hung, models, base_model, idx, compiled,
                   modelfile_path, disk, model_name, result, calls,
                   builder_runs, user_input, reader_runs, listing>>

\* the range test after int() succeeded, accepting 0 and below
ValidChoiceNoFloor(n, lo, hi) == n.ok /\ n.value <= hi

\* `if lo <= value <= hi: break`, reached only when int() did not raise
ValidChoice(n, lo, hi) == n.ok /\ lo <= n.value /\ n.value <= hi

\* one `while True: try: ... int(input()) ...` loop
NumericPrompt(inputs, here, field, lo, hi, after) ==
    /\ pc = here
    /\ \E line \in inputs :
          IF ValidChoice(ParseInt(line), lo, hi)
          THEN /\ config' = [config EXCEPT ![field] = ParseInt(line).value]
               /\ pc' = after
               /\ idx' = 1
          ELSE UNCHANGED <<config, pc, idx>>
    /\ UNCHANGED <<exitCode, hung, models, base_model, compiled,
                   modelfile_path, disk, model_name, result, calls,
                   builder_runs, user_input, reader_runs, listing>>

CollectLevel(inputs) ==
    NumericPrompt(inputs, "collect_level", "level", 1, 6, "collect_style")

CollectStyle(inputs) ==
    NumericPrompt(inputs, "collect_style", "style", 1, 5, "collect_optimization")

CollectOptimization(inputs) ==
    NumericPrompt(inputs, "collect_optimization", "optimization", 1, 6, "collect_feature")

\* the seven inputs of the features dictionary, in order
CollectFeature ==
    /\ pc = "collect_feature"
    /\ \E line \in Answers :
          config' = [config EXCEPT !.features[FeatureNames[idx]] = StartsWithY(line)]
    /\ IF idx < Len(FeatureNames)
       THEN idx' = idx + 1 /\ pc' = pc
       ELSE idx' = 0 /\ pc' = "collect_strict"
    /\ UNCHANGED <<exitCode, hung, models, base_model, compiled,
                   modelfile_path, disk, model_name, result, calls,
                   builder_runs, user_input, reader_runs, listing>>

\* the strict-mode input; the configuration is returned to main
CollectStrict ==
    /\ pc = "collect_strict"
    /\ \E line \in Answers :
          config' = [config EXCEPT !.features.strict_task_mode = StartsWithY(line)]
    /\ pc' = "builder_write"
    /\ UNCHANGED <<exitCode, hung, models, base_model, idx, compiled,
                   modelfile_path, disk, model_name, result, calls,
                   builder_runs, user_input, reader_runs, listing>>

InitCollector ==
    /\ pc = "collect_task"
    /\ config = NoConfig
    /\ Fresh

NextCollector ==
    \/ CollectTask
    \/ CollectLevel(NumInputs)
    \/ CollectStyle(NumInputs)
    \/ CollectOptimization(NumInputs)
    \/ CollectFeature
    \/ CollectStrict

SpecCollector == InitCollector /\ [][NextCollector]_vars

-----------------------------------------------------------------------------
(* Model Builder: create_ultimate_model, and main's use of its result *)

KeepChar(c) == IsAlnum(c) \/ c \in {" ", "-", "_"}

\* the filter without the strip()
clean_task_untrimmed(task) == SelectSeq(task, KeepChar)

\* ''.join(c for c in task if c.isalnum() or c in ' -_').strip()
clean_task(task) == Strip(SelectSeq(task, KeepChar))

model_suffix(optimization) ==
    IF optimization = 5 THEN "_tiny"
    ELSE IF optimization = 6 THEN "_mobile" ELSE "_apex"

\* f"{clean_task.replace(' ', '_').replace('-', '_').lower()}<suffix>"
GeneratedModelName(task, optimization) ==
    Lower(Replace(Replace(clean_task(task), " ", "_"), "-", "_"))
    \o <<model_suffix(optimization)>>

\* a finally block that removes nothing
BuilderFinallyKeeps(d, path) == d

\* finally: if 'modelfile_path' in locals() and os.path.exists(modelfile_path):
\*              os.remove(modelfile_path)
BuilderFinally(d, path) ==
    IF path # <<>> /\ d.exists /\ d.path = path THEN NoFile ELSE d

\* a timeout handler that gives the model up
BuilderReturnNoneOnTimeout(runs, name) ==
    IF runs[1] = "nonzero" \/ runs[Len(runs)] = "timeout"
    THEN [kind |-> "none", name |-> <<>>]
    ELSE [kind |-> "name", name |-> name]

\* What the Builder returns once its invocations have ended as in runs:
\* None from `except CalledProcessError`, model_name from the try block and
\* from `except TimeoutExpired`.
BuilderReturn(runs, name) ==
    IF runs[1] = "nonzero"
    THEN [kind |-> "none", name |-> <<>>]
    ELSE [kind |-> "name", name |-> name]

\* a main that goes on whatever the Builder returned
MainAfterBuildGoesOn(r) == [pc |-> "display_prompt", exitCode |-> -1]

\* main: `if result: display_success_info(...)` else sys.exit(1)
MainAfterBuild(r) ==
    IF r.kind = "name" /\ r.name # <<>>
    THEN [pc |-> "display_prompt", exitCode |-> -1]
    ELSE [pc |-> "exited", exitCode |-> 1]

\* create_ultimate_modelfile up to the end of its `with open(...)` block.  An
\* exception here leaves the Builder through its finally block with
\* modelfile_path unbound, and main through `except Exception`.
BuilderWrite ==
    /\ pc = "builder_write"
    /\ \E now \in Clock, open_ok \in BOOLEAN :
          LET w == create_ultimate_modelfile(config.task, base_model, config, now, open_ok)
          IN IF w.raised # "none"
             THEN Exit(0) /\ disk' = disk
             ELSE /\ disk' = w.file
                  /\ pc' = "builder_written"
                  /\ exitCode' = exitCode
    /\ UNCHANGED <<hung, config, models, base_model, idx, compiled,
                   modelfile_path, model_name, result, calls,
                   builder_runs, user_input, reader_runs, listing>>

\* the file name is returned and bound, the model name is derived and the
\* create invocation is issued (check=True, no timeout)
BuilderIssueCreate ==
    /\ pc = "builder_written"
    /\ modelfile_path' = disk.path
    /\ model_name' = GeneratedModelName(config.task, config.optimization)
    /\ calls' = [calls EXCEPT !.create = @ + 1]
    /\ pc' = "builder_create"
    /\ UNCHANGED <<exitCode, hung, config, models, base_model, idx, compiled,
                   disk, result, builder_runs, user_input, reader_runs, listing>>

\* the Builder is left by `return`: its finally block runs, then main decides
BuilderLeave(runs) ==
    /\ builder_runs' = runs
    /\ result' = BuilderReturn(runs, model_name)
    /\ disk' = BuilderFinally(disk, modelfile_path)
    /\ pc' = MainAfterBuild(result').pc
    /\ exitCode' = MainAfterBuild(result').exitCode
    /\ modelfile_path' = <<>>
    /\ model_name' = <<>>

\* the Builder is left by an exception none of its handlers takes: its
\* finally block runs, then the handlers of the main guard
BuilderAbort(runs, code) ==
    /\ builder_runs' = runs
    /\ disk' = BuilderFinally(disk, modelfile_path)
    /\ Exit(code)
    /\ modelfile_path' = <<>>
    /\ model_name' = <<>>
    /\ result' = result

\* the create invocation ends
BuilderCreate ==
    /\ pc = "builder_create"
    /\ ~hung
    /\ \E o \in RunOutcomes(FALSE) :
          CASE o = "exit0" ->
                  /\ builder_runs' = <<o>>
                  /\ calls' = [calls EXCEPT !.test = @ + 1]
                  /\ pc' = "builder_test"
                  /\ UNCHANGED <<exitCode, hung, modelfile_path, disk,
                                 model_name, result>>
            [] o = "nonzero" ->
                  /\ BuilderLeave(<<o>>)
                  /\ UNCHANGED <<hung, calls>>
            [] o = "notfound" ->
                  /\ BuilderAbort(<<o>>, 0)
                  /\ UNCHANGED <<hung, calls>>
            [] o = "hang" ->
                  /\ hung' = TRUE
                  /\ UNCHANGED <<pc, exitCode, modelfile_path, disk, model_name,
                                 result, calls, builder_runs>>
    /\ UNCHANGED <<config, models, base_model, idx, compiled, user_input, reader_runs, listing>>

\* the smoke-test invocation ends (timeout=15, no check)
BuilderTest ==
    /\ pc = "builder_test"
    /\ \E o \in RunOutcomes(TRUE) :
          IF o = "notfound"
          THEN BuilderAbort(Append(builder_runs, o), 0)
          ELSE BuilderLeave(Append(builder_runs, o))
    /\ UNCHANGED <<hung, config, models, base_model, idx, compiled, calls,
                   user_input, reader_runs, listing>>

-----------------------------------------------------------------------------
(* display_success_info and the Interactive Session Driver *)

\* "Start interactive session ...? (y/n)"; yes issues the introductory run
DisplayPrompt ==
    /\ pc = "display_prompt"
    /\ \E line \in Answers :
          IF StartsWithY(line)
          THEN /\ pc' = "session_intro"
               /\ calls' = [calls EXCEPT !.intro = @ + 1]
               /\ exitCode' = exitCode
          ELSE Exit(0) /\ calls' = calls
    /\ UNCHANGED <<hung, config, models, base_model, idx, compiled,
                   modelfile_path, disk, model_name, result,
                   builder_runs, user_input, reader_runs, listing>>

\* the introductory run ends (timeout=120); TimeoutExpired and any other
\* Exception end the session before its loop
SessionIntro ==
    /\ pc = "session_intro"
    /\ \E o \in RunOutcomes(TRUE) :
          IF o \in {"exit0", "nonzero"}
          THEN pc' = "session_read" /\ exitCode' = exitCode
          ELSE Exit(0)
    /\ UNCHANGED <<hung, config, models, base_model, idx, compiled,
                   modelfile_path, disk, model_name, result, calls,
                   builder_runs, user_input, reader_runs, listing>>

ExitWords == {<<"e", "x", "i", "t">>, <<"q", "u", "i", "t">>, <<"b", "y", "e">>}

\* the lines typed in the session
SessionInputs ==
    {<<"e", "x", "i", "t">>, <<"Q", "u", "i", "t">>, <<"B", "Y", "E">>,
     <<>>, <<" ">>, <<"a", "?">>, <<" ", "e", "x", "i", "t">>}

\* one line of the loop: an exit word breaks, a line that is not blank is
\* forwarded to a run without timeout, a blank line is skipped
SessionRead ==
    /\ pc = "session_read"
    /\ \E line \in SessionInputs :
          /\ user_input' = line
          /\ IF Lower(line) \in ExitWords
             THEN Exit(0) /\ UNCHANGED calls
             ELSE IF Strip(line) # <<>>
             THEN /\ calls.chat < MaxChat
                  /\ calls' = [calls EXCEPT !.chat = @ + 1]
                  /\ pc' = "session_chat"
                  /\ exitCode' = exitCode
             ELSE UNCHANGED <<pc, exitCode, calls>>
    /\ UNCHANGED <<hung, config, models, base_model, idx, compiled,
                   modelfile_path, disk, model_name, result, builder_runs, reader_runs, listing>>

\* the forwarded run ends; its exit status is not looked at
SessionChat ==
    /\ pc = "session_chat"
    /\ ~hung
    /\ \E o \in RunOutcomes(FALSE) :
          CASE o = "hang" ->
                  /\ hung' = TRUE
                  /\ UNCHANGED <<pc, exitCode, user_input>>
            [] o = "notfound" ->
                  /\ Exit(0)
                  /\ UNCHANGED <<hung, user_input>>
            [] OTHER ->
                  /\ pc' = "session_read"
                  /\ UNCHANGED <<exitCode, hung, user_input>>
    /\ UNCHANGED <<config, models, base_model, idx, compiled,
                   modelfile_path, disk, model_name, result, calls,
                   builder_runs, reader_runs, listing>>

-----------------------------------------------------------------------------
(* KeyboardInterrupt and EOFError *)

PromptPcs ==
    {"prober_prompt", "suggest_prompt", "select_prompt", "collect_task",
     "collect_level", "collect_style", "collect_optimization",
     "collect_feature", "collect_strict", "display_prompt", "session_read"}

\* Ctrl-C while the program is at pc.  The Prober's prompt turns it into
\* False, for which main calls sys.exit(1); the bare except around pgrep
\* swallows it; the session loop breaks; the Builder's finally block runs;
\* everywhere else it reaches the main guard, which calls sys.exit(0).
Interrupt ==
    /\ pc # "exited"
    /\ hung' = FALSE
    /\ CASE pc = "prober_prompt" ->
              /\ Exit(1)
              /\ UNCHANGED <<modelfile_path, disk, model_name, builder_runs>>
         [] pc = "prober_pgrep" ->
              /\ \E found \in BOOLEAN :
                    pc' = IF found THEN "suggest_prompt" ELSE "prober_prompt"
              /\ UNCHANGED <<exitCode, modelfile_path, disk, model_name, builder_runs>>
         [] pc \in {"builder_create", "builder_test"} ->
              /\ builder_runs' = Append(builder_runs, "interrupt")
              /\ disk' = BuilderFinally(disk, modelfile_path)
              /\ Exit(0)
              /\ modelfile_path' = <<>>
              /\ model_name' = <<>>
         [] OTHER ->
              /\ Exit(0)
              /\ UNCHANGED <<modelfile_path, disk, model_name, builder_runs>>
    /\ UNCHANGED <<config, models, base_model, idx, compiled, result, calls,
                   user_input, reader_runs, listing>>

\* input() raises EOFError: an Exception for the session's handler and for
\* the main guard, after either of which the script ends
InputClosed ==
    /\ pc \in PromptPcs
    /\ Exit(0)
    /\ UNCHANGED <<hung, config, models, base_model, idx, compiled,
                   modelfile_path, disk, model_name, result, calls,
                   builder_runs, user_input, reader_runs, listing>>

-----------------------------------------------------------------------------
(* The program *)

Init ==
    /\ pc = "prober_methods"
    /\ config = NoConfig
    /\ exitCode = -1
    /\ hung = FALSE
    /\ models = <<>>
    /\ base_model = <<>>
    /\ idx = 1
    /\ compiled = NotCompiled
    /\ modelfile_path = <<>>
    /\ disk = NoFile
    /\ model_name = <<>>
    /\ result = NoResult
    /\ calls = NoCalls
    /\ builder_runs = <<>>
    /\ reader_runs = <<>>
    /\ listing = <<>>
    /\ user_input = <<>>

Next ==
    \/ ProberMethod
    \/ ProberPgrep
    \/ ProberPrompt
    \/ SuggestPrompt
    \/ SuggestPull
    \/ SelectListFirst
    \/ SelectPull
    \/ SelectListAgain
    \/ SelectPrompt
    \/ CollectTask
    \/ CollectLevel(FlowNumInputs)
    \/ CollectStyle(FlowNumInputs)
    \/ CollectOptimization(FlowNumInputs)
    \/ CollectFeature
    \/ CollectStrict
    \/ BuilderWrite
    \/ BuilderIssueCreate
    \/ BuilderCreate
    \/ BuilderTest
    \/ DisplayPrompt
    \/ SessionIntro
    \/ SessionRead
    \/ SessionChat
    \/ Interrupt
    \/ InputClosed

Spec == Init /\ [][Next]_vars

-----------------------------------------------------------------------------
(* Claims about the Builder, main and the Collector *)

BuilderPcs == {"builder_write", "builder_written", "builder_create", "builder_test"}

\* C1: once an invocation of the Builder has ended and the Builder is left,
\* by return or by exception, the model file it wrote is not on disk.
C1_FileAbsentAfterBuilder ==
    (builder_runs # <<>> /\ pc \notin BuilderPcs) => ~disk.exists

C1_Witness ==
    /\ builder_runs = <<"exit0", "notfound">>
    /\ pc = "exited"
    /\ ~disk.exists

\* C2: after a create invocation that exited non-zero the Builder has
\* returned None, create was issued once, no smoke test, success display or
\* session was started, the file is gone and the process has exited with 1.
C2_CreateFailure ==
    (builder_runs # <<>> /\ builder_runs[1] = "nonzero")
    => /\ result.kind = "none"
       /\ calls.create = 1
       /\ calls.test = 0
       /\ calls.intro = 0
       /\ calls.chat = 0
       /\ ~disk.exists
       /\ pc = "exited"
       /\ exitCode = 1

C2_Witness ==
    /\ builder_runs = <<"nonzero">>
    /\ result.kind = "none"
    /\ exitCode = 1

C4_InterruptIsClean == [][Interrupt => exitCode' # 1]_vars

ChosenPcs(field) ==
    CASE field = "level" ->
            {"collect_style", "collect_optimization", "collect_feature",
             "collect_strict", "builder_write"}
      [] field = "style" ->
            {"collect_optimization", "collect_feature", "collect_strict",
             "builder_write"}
      [] field = "optimization" ->
            {"collect_feature", "collect_strict", "builder_write"}

\* a numeric loop is left only for the next prompt and with a value in range
LoopLeftInRange(here, field, hi, after) ==
    pc = here => \/ pc' = here /\ config' = config
                 \/ pc' = after /\ config'[field] \in 1..hi

\* C5: each numeric loop of the Collector comes back to its prompt on input
\* that is no integer in range and ends only on one that is, so the returned
\* configuration has level in 1..6, style in 1..5, optimization in 1..6.
C5_NumericLoops ==
    /\ [](/\ pc \in ChosenPcs("level") => config.level \in 1..6
          /\ pc \in ChosenPcs("style") => config.style \in 1..5
          /\ pc \in ChosenPcs("optimization") => config.optimization \in 1..6)
    /\ [][/\ LoopLeftInRange("collect_level", "level", 6, "collect_style")
          /\ LoopLeftInRange("collect_style", "style", 5, "collect_optimization")
          /\ LoopLeftInRange("collect_optimization", "optimization", 6, "collect_feature")]_vars

C5_Witness ==
    /\ pc = "builder_write"
    /\ config.level = 6
    /\ config.style = 5
    /\ config.optimization = 1

-----------------------------------------------------------------------------
(* The model name as a function of the task *)

PythonTask ==
    <<"P", "y", "t", "h", "o", "n", " ", "B", "a", "c", "k", "e", "n", "d", " ",
      "D", "e", "v", "e", "l", "o", "p", "m", "e", "n", "t", "!", "!">>

NameTasks == TextsUpTo(Alphabet, MaxNameLen) \cup {PythonTask}

\* the Builder after create_ultimate_modelfile has returned, for every task
\* of NameTasks and every optimization profile
InitName ==
    /\ pc = "builder_written"
    /\ config \in {[task |-> t, level |-> 3, style |-> 2, optimization |-> o,
                    features |-> NoFlags] : t \in NameTasks, o \in 1..6}
    /\ base_model = SampleBase
    /\ disk \in {create_ultimate_modelfile(config.task, SampleBase, config, now, TRUE).file :
                    now \in Clock}
    /\ exitCode = -1
    /\ hung = FALSE
    /\ models = <<>>
    /\ idx = 0
    /\ compiled = NotCompiled
    /\ modelfile_path = <<>>
    /\ model_name = <<>>
    /\ result = NoResult
    /\ calls = NoCalls
    /\ builder_runs = <<>>
    /\ reader_runs = <<>>
    /\ listing = <<>>
    /\ user_input = <<>>

NextName == BuilderIssueCreate

SpecName == InitName /\ [][NextName]_vars

\* the positions of a task whose character the name keeps: alphanumeric,
\* space, hyphen or underscore, and not a space before the first or after
\* the last kept character that is no space
NamePositions(t) ==
    LET kept == {i \in 1..Len(t) : IsAlnum(t[i]) \/ t[i] \in {" ", "-", "_"}}
        solid == {i \in kept : t[i] # " "}
    IN {i \in kept : (\E j \in solid : j <= i) /\ (\E j \in solid : j >= i)}

\* C11: the model name is the task without the characters that are neither
\* alphanumeric nor space, hyphen or underscore, trimmed, with spaces and
\* hyphens as underscores, lower-cased, followed by _tiny for optimization 5,
\* _mobile for 6 and _apex for 1..4; it is never empty, and "Python Backend
\* Development!!" with optimization 5 gives python_backend_development_tiny.
C11_ModelName ==
    pc = "builder_create" =>
        LET t == config.task
            o == config.optimization
            pos == NamePositions(t)
            n == Cardinality(pos)
        IN /\ Len(model_name) = n + 1
           /\ model_name # <<>>
           /\ model_name[n + 1] =
                 (IF o = 5 THEN "_tiny" ELSE IF o = 6 THEN "_mobile" ELSE "_apex")
           /\ \A i \in pos :
                 model_name[Cardinality({j \in pos : j <= i})] =
                     (IF t[i] \in {" ", "-"} THEN "_" ELSE LowerChar(t[i]))
           /\ (t = PythonTask /\ o = 5) =>
                 model_name =
                     <<"p", "y", "t", "h", "o", "n", "_", "b", "a", "c", "k", "e",
                       "n", "d", "_", "d", "e", "v", "e", "l", "o", "p", "m", "e",
                       "n", "t", "_tiny">>

C11_Witness ==
    /\ pc = "builder_create"
    /\ config.task = PythonTask
    /\ config.optimization = 5
    /\ model_name[Len(model_name)] = "_tiny"
    /\ Len(model_name) = 27

-----------------------------------------------------------------------------
(* The Inventory Reader on its own *)

ListAlphabet == {"NAME", "MyModel:7b", "llama3.2:1b", "1.3GB", " ", NL}

\* a header and two data lines, with uneven blanks in the second
HeaderAndTwoLines ==
    <<"NAME", " ", "SIZE", " ", "MODIFIED", NL,
      "llama3.2:1b", " ", "1.3GB", " ", "2", " ", "days", " ", "ago", NL,
      "mistral:7b", " ", " ", "4.1GB", "\t", "5", " ", " ", "weeks", " ", "ago", NL>>

\* blank lines, a line with only a name and a line without a date
SparseLines ==
    <<NL, "NAME", " ", "SIZE", NL, NL, " ", NL, " ", "phi3:mini", NL,
      "gemma:2b", " ", "1.7GB", " ", NL>>

ReaderOutputs ==
    TextsUpTo(ListAlphabet, MaxOutLen) \cup {HeaderAndTwoLines, SparseLines}

InitReader ==
    /\ pc = "list_first"
    /\ idx = 1
    /\ config = NoConfig
    /\ exitCode = -1
    /\ hung = FALSE
    /\ models = <<>>
    /\ base_model = <<>>
    /\ compiled = NotCompiled
    /\ modelfile_path = <<>>
    /\ disk = NoFile
    /\ model_name = <<>>
    /\ result = NoResult
    /\ calls = NoCalls
    /\ builder_runs = <<>>
    /\ user_input = <<>>
    /\ reader_runs = <<>>
    /\ listing = <<>>

\* get_available_models on every listing of ReaderOutputs
ReaderAttempt ==
    ListAttempt(ReaderOutputs, "list_first", "select_prompt", "select_pull", -1)

NextReader == ReaderAttempt

SpecReader == InitReader /\ [][NextReader]_vars

\* the positions of a text where a whitespace-separated token starts
TokenStarts(text) ==
    {i \in 1..Len(text) : ~IsSpace(text[i]) /\ (i = 1 \/ IsSpace(text[i - 1]))}

\* the token that starts at position i
TokenAt(text, i) ==
    SubSeq(text, i,
           CHOOSE e \in i..Len(text) :
               /\ \A j \in i..e : ~IsSpace(text[j])
               /\ (e = Len(text) \/ IsSpace(text[e + 1])))

\* the tokens of the line of text that starts at position p, in order
LineTokens(text, p) ==
    LET starts == {i \in TokenStarts(text) : p <= i /\ i <= LineEnd(text, p)}
        Rank(i) == Cardinality({j \in starts : j <= i})
    IN [k \in 1..Cardinality(starts) |->
            TokenAt(text, CHOOSE i \in starts : Rank(i) = k)]

\* C12: from the output of a successful list invocation, the first line is
\* left out exactly when it contains NAME or Model; every other line that is
\* not blank gives one record, in order, and blank lines give none; a
\* record's name is the first token, its size the second or "Unknown", its
\* modified time the further tokens joined by single spaces or "Unknown";
\* a header "NAME SIZE MODIFIED" and two data lines give two records.
C12_ListingParse ==
    pc = "select_prompt" =>
        LET text == Strip(listing)
            header == \E i \in 1..LineEnd(text, 1) :
                          text[i] \in {"NAME", "Model", "MODEL_NAME", "MyModel:7b"}
            rows == {p \in LineStarts(text) :
                        /\ LineTokens(text, p) # <<>>
                        /\ ~(p = 1 /\ header)}
        IN /\ Len(models) = Cardinality(rows)
           /\ \A p \in rows :
                 LET m == models[Cardinality({q \in rows : q <= p})]
                     parts == LineTokens(text, p)
                 IN /\ m.name = parts[1]
                    /\ m.size = (IF Len(parts) >= 2 THEN parts[2] ELSE <<"Unknown">>)
                    /\ m.modified =
                         (IF Len(parts) >= 3
                          THEN Join(SubSeq(parts, 3, Len(parts)), <<" ">>)
                          ELSE <<"Unknown">>)
           /\ listing = HeaderAndTwoLines => Len(models) = 2

C12_Witness ==
    /\ pc = "select_prompt"
    /\ listing = HeaderAndTwoLines
    /\ Len(models) = 2
    /\ models[1].name = <<"llama3.2:1b">>
    /\ models[2].size = <<"4.1GB">>
    /\ models[2].modified = <<"5", " ", "weeks", " ", "ago">>

\* C14: the Reader's result is the parse of the first list invocation that
\* exits 0: no candidate is invoked after an invocation has exited 0, also
\* when that one lists no model; a non-zero exit, a missing executable and
\* a timeout are not raised, and after three failures the result is empty.
C14_FirstSuccessEnds ==
    /\ \A k \in 1..(Len(reader_runs) - 1) : reader_runs[k] # "exit0"
    /\ (pc = "select_prompt" /\ reader_runs # <<>>) =>
           /\ reader_runs[Len(reader_runs)] = "exit0"
           /\ models = ParseModels(listing)
    /\ (Len(reader_runs) = 3 /\ \A k \in 1..3 : reader_runs[k] # "exit0") =>
           /\ pc = "select_pull"
           /\ models = <<>>
           /\ exitCode = -1

-----------------------------------------------------------------------------
(* select_base_model without an inventory *)

\* C13: when the list invocations fail or list no model, select_base_model
\* does not end the program: no exit code is set, least of all 1, and no
\* pull invocation is started by the Reader's empty result alone, without
\* the user having been asked.
C13_EmptyInventoryNotFatal ==
    [][(SelectListFirst \/ SelectListAgain) =>
           /\ pc' # "exited"
           /\ exitCode' = -1
           /\ pc' # "select_pull"]_vars

-----------------------------------------------------------------------------
(* The feature flags in the instruction text *)

\* C15: each of the eight flags, strict_task_mode included, enables a
\* clause of its own: the configuration that differs from the compiled one
\* in that flag alone gives a different instruction text.
C15_EveryFlagChangesText ==
    pc = "compiler_return" =>
        \A k \in 1..Len(FlagNames) :
            LET other == [config EXCEPT !.features[FlagNames[k]] = ~@]
            IN create_ultimate_system_prompt(config.task, other).system_prompt
                   # compiled.system_prompt

\* the same for the seven flags the Compiler reads
C15_ReadFlagsChangeText ==
    pc = "compiler_return" =>
        \A k \in 1..Len(FeatureNames) :
            LET other == [config EXCEPT !.features[FeatureNames[k]] = ~@]
            IN create_ultimate_system_prompt(config.task, other).system_prompt
                   # compiled.system_prompt

-----------------------------------------------------------------------------
(* The session loop *)

\* C16: a line that is exit, quit or bye in any case ends the session and
\* no run is issued for it; every other line, the empty and the blank ones
\* included, is forwarded to exactly one run before the next line is read.
C16_EveryLineForwarded ==
    [][SessionRead =>
           IF Lower(user_input') \in ExitWords
           THEN pc' = "exited" /\ exitCode' = 0 /\ calls' = calls
           ELSE pc' = "session_chat" /\ calls'.chat = calls.chat + 1]_vars

\* the same without the blank lines
C16_NonBlankLineForwarded ==
    [][SessionRead =>
           IF Lower(user_input') \in ExitWords
           THEN pc' = "exited" /\ exitCode' = 0 /\ calls' = calls
           ELSE Strip(user_input') # <<>> =>
                    pc' = "session_chat" /\ calls'.chat = calls.chat + 1]_vars

\* C17: the session issues exactly one introductory run and, however that
\* run ends, goes on to the loop, where the user is asked for a line.
C17_IntroThenLoop ==
    /\ [][SessionIntro =>
              pc' = "session_read" /\ exitCode' = -1 /\ calls' = calls]_vars
    /\ [](pc \in {"session_intro", "session_read", "session_chat"} =>
              calls.intro = 1)

-----------------------------------------------------------------------------
(* The external invocations *)

\* where the program waits for an external invocation to end
InvocationPcs ==
    {"prober_methods", "prober_pgrep", "suggest_pull", "list_first",
     "select_pull", "list_again", "builder_create", "builder_test",
     "session_intro", "session_chat"}

\* C18: every external invocation carries a timeout, so the program never
\* waits at one that does not end by itself; in particular the Builder is
\* never left waiting for its create or its smoke-test run.
C18_InvocationsEnd ==
    \A p \in InvocationPcs : pc = p => ~hung

\* the same for the invocations the code gives a timeout
C18_TimedInvocationsEnd ==
    \A p \in {"prober_methods", "list_first", "list_again", "builder_test",
              "session_intro"} : pc = p => ~hung

====
